---- MODULE Spec2Model ----
(***************************************************************************)
(* Batch materialization pipeline of dvmax:                                *)
(*   src/src/dataprep/features/aggregation/ticker_batch_runner.py          *)
(*   src/src/dataprep/features/aggregation/validate_dynamic_row.py         *)
(*                                                                         *)
(* Four specifications share the definitions:                              *)
(*   Spec          one run of main(): tickers x dates, retry helper,       *)
(*                 breaker, deadline, exit code.  save_or_append runs as   *)
(*                 one step.                                               *)
(*   SpecSave      arbitrary save_or_append calls on one per-ticker file,  *)
(*                 with the temp write and the rename as separate steps    *)
(*                 and a process crash possible between them.              *)
(*   SpecStatic    arbitrary save_static_row calls on the static table.    *)
(*   SpecValidate  validate_dynamic_row applied to one row and a trend     *)
(*                 context.                                                *)
(*                                                                         *)
(* Numbers are fixed-point: a numeric cell n stands for n / 1000.          *)
(***************************************************************************)
EXTENDS Integers, Sequences, FiniteSets, TLC

\* ---------------------------------------------------------------- bounds
MaxBatch == 2

\* ---------------------------------------------------------- configuration
\* TICKERS (line 54), START_YEAR and END_YEAR (lines 63-65) of the run.
TICKERS == <<"AAA", "BBB">>
START_YEAR == 2021
END_YEAR == 2023

NumTickers == Len(TICKERS)
Tickers == 1..NumTickers
TickerNames == TICKERS

\* Lines 191-197 with START_DATE, END_DATE of lines 80-81: one as_of per
\* year, Dec 31; an as_of is named by its year.
RECURSIVE get_dates_between(_, _)
get_dates_between(start, end) ==
  IF start > end THEN <<>> ELSE <<start>> \o get_dates_between(start + 1, end)

dates == get_dates_between(START_YEAR, END_YEAR)
NumDates == Len(dates)
Dates == {dates[i] : i \in 1..NumDates}

\* ------------------------------------------------- cells and data frames
\* A cell is a record whose only field names its kind, so that cells of
\* different kinds are unequal without comparing an integer with a string.
NULL == [null |-> TRUE]
Num(v) == [n |-> v]
Str(x) == [s |-> x]
Dt(d) == [d |-> d]
IsNull(c) == c = NULL
IsNum(c) == DOMAIN c = {"n"}
IsStr(c) == DOMAIN c = {"s"}

NoFile == [absent |-> TRUE]
Partial == [partial |-> TRUE]
Stale == [stale |-> TRUE]
EmptyDF == [cols |-> {}, rows |-> <<>>]
IsTable(f) == DOMAIN f = {"cols", "rows"}

ValidationCols == {"validation_status", "violations"}
ColOrder ==
  <<"as_of", "dividend_yield", "pe_ratio", "ticker", "validation_status",
    "violations">>

AsOfOf(r) == r["as_of"].d
AsOfSet(df) == {AsOfOf(df.rows[i]) : i \in 1..Len(df.rows)}
Height(df) == Len(df.rows)

RowAt(df, d) ==
  LET I == {i \in 1..Len(df.rows) : AsOfOf(df.rows[i]) = d}
  IN df.rows[CHOOSE i \in I : TRUE]

FillWithZero(df, all_columns) ==
  [cols |-> all_columns,
   rows |-> [i \in 1..Len(df.rows) |->
               [c \in all_columns |->
                  IF c \in df.cols THEN df.rows[i][c] ELSE Num(0)]]]

fill_missing_columns(df, all_columns) ==
  [cols |-> all_columns,
   rows |-> [i \in 1..Len(df.rows) |->
               [c \in all_columns |->
                  IF c \in df.cols THEN df.rows[i][c] ELSE NULL]]]

\* Series.round(2): half away from zero, on thousandths.
Round2(v) ==
  IF v >= 0 THEN ((v + 5) \div 10) * 10 ELSE 0 - (((0 - v) + 5) \div 10) * 10

RoundCell(c) == IF IsNum(c) THEN Num(Round2(c.n)) ELSE c

cast_and_round_numeric(df) ==
  [cols |-> df.cols,
   rows |-> [i \in 1..Len(df.rows) |->
               [c \in df.cols |-> RoundCell(df.rows[i][c])]]]

\* Lines 313-315 and 512-514: a file written without the validation columns
\* gets them as empty strings when it is read.
with_validation_cols(df) ==
  [cols |-> df.cols \cup ValidationCols,
   rows |-> [i \in 1..Len(df.rows) |->
               [c \in df.cols \cup ValidationCols |->
                  IF c \in df.cols THEN df.rows[i][c] ELSE Str("")]]]

CoalesceOmitted(df) == df

\* Lines 353-366: coalesce(validation column, "").
coalesce_validation(df) ==
  [cols |-> df.cols \cup ValidationCols,
   rows |-> [i \in 1..Len(df.rows) |->
               [c \in df.cols \cup ValidationCols |->
                  IF c \in ValidationCols
                    THEN (IF c \in df.cols /\ ~IsNull(df.rows[i][c])
                            THEN df.rows[i][c] ELSE Str(""))
                    ELSE df.rows[i][c]]]]

RECURSIVE PickRows(_, _, _)
PickRows(rows, I, i) ==
  IF i > Len(rows) THEN <<>>
  ELSE (IF i \in I THEN <<rows[i]>> ELSE <<>>) \o PickRows(rows, I, i + 1)

UniqueKeepAll(rows) == {rows}

\* DataFrame.unique(subset=["as_of"]) with the default keep="any": one row
\* per distinct as_of, and no guarantee which of the duplicates it is.
\* Every choice is a possible result.  The order of the result is not
\* specified either; it is taken in input order here, the code sorts next.
unique_as_of(rows) ==
  LET A == {AsOfOf(rows[i]) : i \in 1..Len(rows)}
      Kept == {I \in SUBSET (1..Len(rows)) :
                 \A a \in A : Cardinality({i \in I : AsOfOf(rows[i]) = a}) = 1}
  IN {PickRows(rows, I, 1) : I \in Kept}

RECURSIVE InsertSorted(_, _)
InsertSorted(r, s) ==
  IF s = <<>> THEN <<r>>
  ELSE IF AsOfOf(r) < AsOfOf(Head(s)) THEN <<r>> \o s
  ELSE <<Head(s)>> \o InsertSorted(r, Tail(s))

RECURSIVE SortRows(_)
SortRows(rows) ==
  IF rows = <<>> THEN <<>>
  ELSE InsertSorted(rows[Len(rows)], SortRows(SubSeq(rows, 1, Len(rows) - 1)))

SortOmitted(df) == df

\* DataFrame.sort("as_of")
sort_as_of(df) == [cols |-> df.cols, rows |-> SortRows(df.rows)]

IsSortedUnique(df) ==
  \A i \in 1..(Len(df.rows) - 1) : AsOfOf(df.rows[i]) < AsOfOf(df.rows[i + 1])

\* os.path.getsize of a written parquet file: a function of the shape of the
\* table (rows, columns, string lengths, nulls); a Float32 or a Date cell
\* takes four bytes whatever its value.
CellWidth(c) == IF IsNull(c) THEN 0 ELSE IF IsStr(c) THEN Len(c.s) ELSE 4

RECURSIVE RowWidth(_, _, _)
RowWidth(r, cols, k) ==
  IF k > Len(ColOrder) THEN 0
  ELSE (IF ColOrder[k] \in cols THEN 8 + CellWidth(r[ColOrder[k]]) ELSE 0)
       + RowWidth(r, cols, k + 1)

RECURSIVE RowsWidth(_, _, _)
RowsWidth(rows, cols, i) ==
  IF i > Len(rows) THEN 0
  ELSE RowWidth(rows[i], cols, 1) + RowsWidth(rows, cols, i + 1)

getsize(df) == 64 * Cardinality(df.cols) + RowsWidth(df.rows, df.cols, 1)

\* ------------------------------------------------------- save_or_append
\* The table save_or_append writes and the flag it returns, for the file
\* found at the per-ticker path (NoFile when absent), the batch df and
\* merge_with_existing.  A set: unique() may keep any of the duplicates.
MergedTables(file, df) ==
  LET df_existing == with_validation_cols(file)
      all_columns == df.cols \cup df_existing.cols
      dn == cast_and_round_numeric(fill_missing_columns(df, all_columns))
      de == cast_and_round_numeric(fill_missing_columns(df_existing, all_columns))
  IN {coalesce_validation([cols |-> all_columns, rows |-> u]) :
        u \in unique_as_of(de.rows \o dn.rows)}

\* Lines 376-399: the flag returned for the table `out` about to be written.
changed_flag(file, out, merge) ==
  IF merge /\ IsTable(file) /\ Height(out) # Height(file) THEN TRUE
  ELSE IF ~merge /\ IsTable(file) THEN TRUE
  ELSE IF IsTable(file) THEN getsize(out) # getsize(file)
  ELSE TRUE

save_or_append(file, df, merge) ==
  LET outs == IF merge /\ IsTable(file)
                THEN MergedTables(file, df)
                ELSE {cast_and_round_numeric(df)}
  IN {[out |-> o, changed |-> changed_flag(file, o, merge)] :
        o \in {sort_as_of(u) : u \in outs}}

\* -------------------------------------------------------- save_static_row
TickerOf(r) == r["ticker"].s
TickerSet(df) == {TickerOf(df.rows[i]) : i \in 1..Len(df.rows)}

\* Line 280: the columns whose name starts with "sector_" or "country_",
\* among the column names the static frames use.
OneHotNames == {"sector_energy", "sector_technology", "sector_other", "country_usa"}
ohe_cols(all_columns) == all_columns \cap OneHotNames

FillNullOmitted(df) == df

\* Lines 281-283: cast(Int8).fill_null(0) on every one-hot column.
fill_null_one_hot(df) ==
  [cols |-> df.cols,
   rows |-> [i \in 1..Len(df.rows) |->
               [c \in df.cols |->
                  IF c \in ohe_cols(df.cols) /\ IsNull(df.rows[i][c])
                    THEN Num(0) ELSE df.rows[i][c]]]]

\* DataFrame.unique(subset=["ticker"]), keep="any": one row per ticker,
\* whichever of the duplicates; every choice is a possible result.
unique_ticker(rows) ==
  LET K == {TickerOf(rows[i]) : i \in 1..Len(rows)}
      Kept == {I \in SUBSET (1..Len(rows)) :
                 \A k \in K : Cardinality({i \in I : TickerOf(rows[i]) = k}) = 1}
  IN {PickRows(rows, I, 1) : I \in Kept}

\* The tables save_static_row may write for the file found at static_path
\* (NoFile when absent) and the frame static_df.  Lines 250-277 change
\* dtypes only: a column missing on one side is all null there and takes
\* the dtype of the other side, and the values stay as they are.
save_static_row(file, static_df) ==
  LET existing == IF IsTable(file) THEN file ELSE EmptyDF
      all_columns == existing.cols \cup static_df.cols
      e == fill_null_one_hot(fill_missing_columns(existing, all_columns))
      n == fill_null_one_hot(fill_missing_columns(static_df, all_columns))
  IN {[cols |-> all_columns, rows |-> u] : u \in unique_ticker(e.rows \o n.rows)}

\* A static row as ticker_row_builder makes it: the ticker, the sector and
\* its one-hot columns; `kind` picks the sector, kind 3 is a row that has
\* a country indicator and a null sector indicator instead.
StaticKindsOfRow == {1, 2, 3}

StaticRowOf(t, kind) ==
  IF kind = 1
    THEN [ticker |-> Str(TickerNames[t]), sector |-> Str("Energy"),
          sector_energy |-> Num(1), sector_other |-> Num(0)]
  ELSE IF kind = 2
    THEN [ticker |-> Str(TickerNames[t]), sector |-> Str("Technology"),
          sector_technology |-> Num(1), sector_other |-> Num(0)]
  ELSE [ticker |-> Str(TickerNames[t]), sector_other |-> NULL,
        country_usa |-> Num(1)]

StaticFrame(t, kind) ==
  [cols |-> DOMAIN StaticRowOf(t, kind), rows |-> <<StaticRowOf(t, kind)>>]

StaticFrames == {StaticFrame(t, kind) : t \in Tickers, kind \in StaticKindsOfRow}

\* The static frame the assembler returns for ticker t in a run.
StaticDF(t) == StaticFrame(t, IF t = 1 THEN 1 ELSE 2)

\* --------------------------------------------------- validate_dynamic_row
\* A float cell is a number (thousandths), NaN or an infinity; comparisons
\* are those of Python floats: every comparison with NaN is false.
NaN == [nan |-> TRUE]
Inf(sgn) == [inf |-> sgn]
IsNaN(c) == c = NaN
IsInf(c) == DOMAIN c = {"inf"}

Abs(x) == IF x >= 0 THEN x ELSE 0 - x

FLess(a, b) ==
  IF IsNaN(a) \/ IsNaN(b) THEN FALSE
  ELSE IF IsInf(a) THEN a.inf < 0 /\ ~(IsInf(b) /\ b.inf < 0)
  ELSE IF IsInf(b) THEN b.inf > 0
  ELSE a.n < b.n

FLeq(a, b) == ~IsNaN(a) /\ ~IsNaN(b) /\ (a = b \/ FLess(a, b))

FAbs(c) == IF IsNum(c) THEN Num(Abs(c.n)) ELSE IF IsInf(c) THEN Inf(1) ELSE c

\* The features of the model, in the order of the dict FEATURE_RANGES
\* (lines 5-33), and those of _REL_JUMP_LIMIT (lines 49-56) in its order.
FeatureOrder == <<"6m_return", "net_debt_to_ebitda", "ebit_interest_cover",
                  "ebit_interest_cover_capped", "dividend_yield", "pfcf_ratio">>
JumpOrder == <<"pfcf_ratio", "net_debt_to_ebitda", "dividend_yield">>

RangeLo == 0
RangeHi == 250
RelJumpLimit == 10

FEATURE_RANGES ==
  [c \in {FeatureOrder[k] : k \in 1..Len(FeatureOrder)} |->
     CASE c = "6m_return" -> <<0 - 1000, 10000>>
       [] c = "net_debt_to_ebitda" -> <<0 - 10000, 20000>>
       [] c = "ebit_interest_cover" -> <<0, 200000>>
       [] c = "ebit_interest_cover_capped" -> <<0, 200000>>
       [] c = "dividend_yield" -> <<RangeLo, RangeHi>>
       [] c = "pfcf_ratio" -> <<0, 300000>>]

LOWER_INCLUSIVE ==
  {"dividend_yield", "max_drawdown_1y", "volatility", "payout_ratio", "pe_ratio",
   "pfcf_ratio", "ebit_interest_cover", "ebit_interest_cover_capped"}

REL_JUMP_LIMIT ==
  [c \in {JumpOrder[k] : k \in 1..Len(JumpOrder)} |->
     CASE c = "pfcf_ratio" -> 15
       [] c = "net_debt_to_ebitda" -> 25
       [] c = "dividend_yield" -> RelJumpLimit]

TINY_FCF == 1000
TINY_EBITDA == 1000
TINY_INTEREST_EXP == 1000

\* row[col] of a one-row frame, None when the column is absent.
Cell(row, col) == IF col \in DOMAIN row THEN row[col] ELSE NULL

in_range(val, lo, hi, lower_inclusive) ==
  IF IsNull(val) THEN TRUE
  ELSE LET lo_ok == IF lower_inclusive THEN FLeq(Num(lo), val) ELSE FLess(Num(lo), val)
           hi_ok == FLess(val, Num(hi))
       IN lo_ok /\ hi_ok

\* abs(float(d)) <= eps, for a denominator that is not None.
is_tiny(d, eps) == FLeq(FAbs(d), Num(eps))

\* Lines 69-96: the row with unstable ratios set to null and the codes.
maybe_nullify_unstable_ratios(row) ==
  LET cols == DOMAIN row
      n1 == /\ {"free_cash_flow", "pfcf_ratio"} \subseteq cols
            /\ ~IsNull(row["free_cash_flow"])
            /\ is_tiny(row["free_cash_flow"], TINY_FCF)
      n2 == /\ {"ebitda", "net_debt_to_ebitda"} \subseteq cols
            /\ ~IsNull(row["ebitda"])
            /\ is_tiny(row["ebitda"], TINY_EBITDA)
      n3 == /\ {"ebit_interest_cover", "ebit_interest_cover_capped",
                "interest_expense"} \subseteq cols
            /\ ~IsNull(row["interest_expense"])
            /\ is_tiny(row["interest_expense"], TINY_INTEREST_EXP)
      nulled == (IF n1 THEN {"pfcf_ratio"} ELSE {})
                  \cup (IF n2 THEN {"net_debt_to_ebitda"} ELSE {})
                  \cup (IF n3 THEN {"ebit_interest_cover", "ebit_interest_cover_capped"}
                              ELSE {})
  IN [out |-> [c \in cols |-> IF c \in nulled THEN NULL ELSE row[c]],
      violations |->
        (IF n1 THEN <<"pfcf_ratio_nullified_tiny_fcf">> ELSE <<>>)
          \o (IF n2 THEN <<"nde_nullified_tiny_ebitda">> ELSE <<>>)
          \o (IF n3 THEN <<"eic_nullified_tiny_interest_expense">> ELSE <<>>)]

RECURSIVE RangeViolations(_, _)
RangeViolations(row, k) ==
  IF k > Len(FeatureOrder) THEN <<>>
  ELSE LET col == FeatureOrder[k]
           r == FEATURE_RANGES[col]
       IN (IF in_range(Cell(row, col), r[1], r[2], col \in LOWER_INCLUSIVE)
             THEN <<>> ELSE <<col \o " out-of-bounds">>)
          \o RangeViolations(row, k + 1)

check_ranges(row) == RangeViolations(row, 1)

\* abs(curf / prevf) > limit for floats with abs(prevf) >= _TINY.
ratio_exceeds(cur, prev, limit) ==
  IF IsNaN(cur) \/ IsNaN(prev) \/ IsInf(prev) THEN FALSE
  ELSE IF IsInf(cur) THEN TRUE
  ELSE Abs(cur.n) > limit * Abs(prev.n)

FloorIgnored(prev) == FALSE

\* abs(prevf) < _TINY (1e-6): zero at the resolution of the model.
below_floor(prev) == IsNum(prev) /\ Abs(prev.n) = 0

\* prev_df[col].to_list()[-1]: the last row of the trend context.
PrevRow(prev_df) == prev_df.rows[Len(prev_df.rows)]

RECURSIVE JumpViolations(_, _, _)
JumpViolations(row, prev_df, k) ==
  IF k > Len(JumpOrder) THEN <<>>
  ELSE LET col == JumpOrder[k]
           cur == Cell(row, col)
           prev == IF col \in prev_df.cols THEN PrevRow(prev_df)[col] ELSE NULL
           fires == /\ col \in DOMAIN row /\ col \in prev_df.cols
                    /\ ~IsNull(cur) /\ ~IsNull(prev)
                    /\ ~below_floor(prev)
                    /\ ratio_exceeds(cur, prev, REL_JUMP_LIMIT[col])
       IN (IF fires THEN <<col \o " abnormal change">> ELSE <<>>)
          \o JumpViolations(row, prev_df, k + 1)

check_relative_jumps(row, prev_df) ==
  IF prev_df = EmptyDF \/ Len(prev_df.rows) = 0 THEN <<>>
  ELSE JumpViolations(row, prev_df, 1)

\* Lines 128-134.
check_internal_consistency(row) ==
  IF {"ebit_interest_cover", "ebit_interest_cover_capped"} \subseteq DOMAIN row
    THEN LET raw == row["ebit_interest_cover"]
             capped == row["ebit_interest_cover_capped"]
         IN IF ~IsNull(raw) /\ ~IsNull(capped) /\ FLess(raw, capped)
              THEN <<"eic_capped_gt_raw">> ELSE <<>>
    ELSE <<>>

RECURSIVE JoinSemi(_)
JoinSemi(errors) ==
  IF errors = <<>> THEN ""
  ELSE IF Len(errors) = 1 THEN errors[1]
  ELSE errors[1] \o ";" \o JoinSemi(Tail(errors))

StatusAlwaysOk(violations) == "ok"

\* Line 146.
status_of(violations) == IF violations # <<>> THEN "flagged" ELSE "ok"

validate_dynamic_row(row, prev_df) ==
  LET nul == maybe_nullify_unstable_ratios(row)
      out == nul.out
      violations == nul.violations \o check_ranges(out)
                      \o check_relative_jumps(out, prev_df)
                      \o check_internal_consistency(out)
  IN [status |-> status_of(violations),
      violations |-> violations,
      out |-> out]

\* Lines 430-434 and 493-496: the dynamic row of (ticker, as_of) as
\* _fetch_build_validate_once returns it.
stamped_row(t, d, v, prev_df) ==
  LET raw == [c \in {"ticker", "as_of", "dividend_yield"} |->
                IF c = "ticker" THEN Str(TickerNames[t])
                ELSE IF c = "as_of" THEN Dt(d) ELSE v]
      res == validate_dynamic_row(raw, prev_df)
  IN [c \in {"ticker", "as_of", "dividend_yield"} \cup ValidationCols |->
        IF c = "validation_status" THEN Str(res.status)
        ELSE IF c = "violations" THEN Str(JoinSemi(res.violations))
        ELSE res.out[c]]

\* ------------------------------------------------------------------ state
VARIABLES
  mode,               \* OVERWRITE_MODE
  max_global_minutes, \* MAX_GLOBAL_MINUTES, in ticks of the clock
  now,                \* time.time(), relative to the start of the run
  files,              \* per-ticker parquet under OUTPUT_DIR, NoFile if absent
  tmp,                \* the "<path>.tmp" file next to it
  mpc,                \* position of main()
  ti,                 \* index of the ticker of main's loop
  all_logs,           \* tags of the lines of all_logs
  any_changed,
  hard_fail,
  tpc,                \* position of generate_features_for_ticker
  di,                 \* index of as_of in dates
  existing_dates,
  keep_df,
  changed,
  saved_static,
  consec_429,
  stats,
  logs,               \* tags of the lines of logs, in order
  attempt,            \* i of _retry's loop: failed attempts for this as_of
  stop,               \* why the date loop was left early, "none" if not
  fetched,            \* history: as_of values of this ticker handed to the assembler
  last,               \* history: the as_of last handled and how it ended
  errs,               \* history: "429" / "other", the exceptions that ended an as_of
  lastStop,           \* history: stop of the ticker that returned last
  initFiles,          \* history: files at the start of the run
  spc,                \* SpecSave: position inside save_or_append
  pending,            \* SpecSave: the call in progress
  raised,             \* history: the exception _retry caught last for this as_of
  save_calls,         \* history: calls of save_or_append for this ticker
  audit,              \* files under AUDIT_DIR, as <<ticker, as_of>>
  static_file,        \* static_ticker_info.parquet, NoFile if absent
  static_written,     \* history: the frames save_static_row wrote
  merged_file,        \* the combined table of all tickers, NoFile if absent
  vpc,                \* SpecValidate: before ("in") or after ("out") the call
  vrow,               \* SpecValidate: dynamic_df, one row
  vprev,              \* SpecValidate: prev_df, EmptyDF for None
  vres                \* SpecValidate: what validate_dynamic_row returned

vars == <<mode, max_global_minutes, now, files, tmp, mpc, ti, all_logs,
          any_changed, hard_fail, tpc, di, existing_dates, keep_df, changed,
          saved_static, consec_429, stats, logs, attempt, stop, fetched, last,
          errs, lastStop, initFiles, spc, pending, raised, save_calls, audit,
          static_file, static_written, merged_file, vpc, vrow, vprev, vres>>

configVars == <<mode, max_global_minutes, initFiles>>
mainVars == <<mpc, ti, all_logs, any_changed, hard_fail, lastStop>>
tickerVars == <<tpc, di, existing_dates, keep_df, changed, saved_static,
                consec_429, stats, logs, attempt, stop, fetched, last,
                raised, save_calls>>
saveVars == <<spc, pending>>
staticVars == <<static_file, static_written>>
valVars == <<vpc, vrow, vprev, vres>>

\* Lines 85 and 70; both are read from the environment.
MAX_CONSEC_429 == 2
MAX_RETRIES == 2

VALID_OVERWRITE_MODES == {"append", "overwrite", "skip"}
AssemblerValues == {Num(14), Num(260)}
StaticKinds == {"row", "empty", "bad"}
HardErrors == {"auth", "plan"}
Exceptions == {"auth", "plan", "error"}

ZeroStats == [ok |-> 0, skipped |-> 0, flagged |-> 0, failed |-> 0]
\* Lines 160-165: RunStats().update_from_lines(lines), on the tags.
RECURSIVE CountTag(_, _)
CountTag(lines, tag) ==
  IF lines = <<>> THEN 0
  ELSE (IF Head(lines) = tag THEN 1 ELSE 0) + CountTag(Tail(lines), tag)

update_from_lines(lines) ==
  [ok |-> CountTag(lines, "OK"), skipped |-> CountTag(lines, "SKIP"),
   flagged |-> CountTag(lines, "FLAGGED"), failed |-> CountTag(lines, "FAIL")]

NoLast == [d |-> 0, out |-> "none"]
NoCall == [recovered |-> FALSE]

\* A per-ticker table as an earlier run of the program leaves it: rounded
\* values, validation columns stamped, sorted by as_of.
InitRow(t, d) ==
  [c \in {"ticker", "as_of", "dividend_yield"} \cup ValidationCols |->
     IF c = "ticker" THEN Str(TickerNames[t])
     ELSE IF c = "as_of" THEN Dt(d)
     ELSE IF c = "dividend_yield" THEN Num(10)
     ELSE IF c = "validation_status" THEN Str("ok")
     ELSE Str("")]

InitTable(t, S) ==
  sort_as_of([cols |-> {"ticker", "as_of", "dividend_yield"} \cup ValidationCols,
              rows |-> [i \in 1..Len(S) |-> InitRow(t, S[i])]])

\* The files a run starts from: the first ticker has no file, or a table
\* holding one as_of in the middle of the date list (the end-to-end test),
\* or a table holding every as_of; the other tickers have a table holding
\* every as_of but the last.
InitTables(t) ==
  IF t = 1 THEN {NoFile, InitTable(t, <<START_YEAR + 1>>), InitTable(t, dates)}
  ELSE {InitTable(t, SubSeq(dates, 1, NumDates - 1))}

\* Line 624 and lines 529, 638, 647.
RUN_DEADLINE_TS == IF max_global_minutes > 0 THEN 0 + max_global_minutes ELSE 0
DeadlineReached == RUN_DEADLINE_TS # 0 /\ now >= RUN_DEADLINE_TS

DeadlineIgnored == FALSE

deadline_check == DeadlineReached

OneTryMore == MAX_RETRIES + 1

\* Line 472: tries = max(1, int(max_tries)).
max_tries == IF MAX_RETRIES >= 1 THEN MAX_RETRIES ELSE 1

ReraisesNothing(k) == FALSE

\* Lines 476-478: except FMPRateLimitError: raise.
retry_reraises(k) == k = "429"

BreakerNever(c) == FALSE

\* Line 582.
breaker_trips(c) == c >= MAX_CONSEC_429

HardErrorContinues(k) == FALSE

\* Line 597: the except clause of FMPAuthError and FMPPlanError.
is_hard_error(k) == k \in HardErrors

ExistingDatesForgotten(df) == {}

\* Line 518.
existing_dates_of(df) == IF df = EmptyDF THEN {} ELSE AsOfSet(df)

ExitIgnoresStrict(STRICT, hardFail) == IF hardFail THEN 1 ELSE 0

\* Lines 652-655.
main_exit(STRICT, hardFail) == IF STRICT /\ hardFail THEN 1 ELSE 0

Tags(lines) == {lines[i] : i \in 1..Len(lines)}

TickerIdle ==
  /\ tpc = "idle" /\ di = 0 /\ existing_dates = {} /\ keep_df = EmptyDF
  /\ changed = FALSE /\ saved_static = FALSE /\ consec_429 = 0
  /\ stats = ZeroStats /\ logs = <<>> /\ attempt = 0 /\ stop = "none"
  /\ fetched = {} /\ last = NoLast /\ raised = "none" /\ save_calls = 0

SaveIdle == spc = "idle" /\ pending = NoCall

NoRow == [none |-> TRUE]
ValIdle == vpc = "idle" /\ vrow = NoRow /\ vprev = EmptyDF /\ vres = NoRow

Init ==
  /\ mode \in VALID_OVERWRITE_MODES
  /\ max_global_minutes \in {0, 1}
  /\ now = 0
  /\ files \in {f \in [Tickers -> UNION {InitTables(t) : t \in Tickers}] :
                   \A t \in Tickers : f[t] \in InitTables(t)}
  /\ tmp = [t \in Tickers |-> NoFile]
  /\ mpc = "loop" /\ ti = 1 /\ all_logs = {} /\ any_changed = FALSE
  /\ hard_fail = FALSE /\ lastStop = "none"
  /\ TickerIdle
  /\ errs = {}
  /\ initFiles = files
  /\ SaveIdle
  /\ audit = {} /\ merged_file = NoFile
  /\ static_file = NoFile /\ static_written = {}
  /\ ValIdle

\* ------------------------------------------------------------------- time
\* The clock passes the deadline; any sleep or call may take that long.
TimePasses ==
  /\ mpc # "done" /\ now = 0
  /\ now' = 1
  /\ UNCHANGED <<configVars, audit, merged_file, staticVars, valVars, files, tmp, mainVars, tickerVars, errs, saveVars>>

\* ----------------------------------------------- generate_features_for_ticker
InTicker == mpc = "in_ticker"

\* Lines 505-525: main calls generate_features_for_ticker(t, dates).
TickerStart ==
  /\ mpc = "loop" /\ ti <= NumTickers /\ ~deadline_check
  /\ LET df_existing == IF IsTable(files[ti])
                           THEN with_validation_cols(files[ti]) ELSE EmptyDF
     IN /\ existing_dates' = existing_dates_of(df_existing)
        /\ keep_df' = df_existing
  /\ mpc' = "in_ticker" /\ tpc' = "date_top" /\ di' = 1
  /\ changed' = FALSE /\ saved_static' = FALSE /\ consec_429' = 0
  /\ stats' = ZeroStats /\ logs' = <<>> /\ attempt' = 0 /\ stop' = "none"
  /\ fetched' = {} /\ last' = NoLast /\ raised' = "none" /\ save_calls' = 0
  /\ UNCHANGED <<configVars, audit, merged_file, staticVars, valVars, now, files, tmp, ti, all_logs, any_changed,
                 hard_fail, lastStop, errs, saveVars>>

AtDateTop == InTicker /\ tpc = "date_top" /\ di <= NumDates

\* Lines 529-539.
DateDeadline ==
  /\ AtDateTop /\ deadline_check
  /\ logs' = Append(logs, "INFO")
  /\ stop' = "deadline" /\ tpc' = "ret"
  /\ UNCHANGED <<configVars, audit, merged_file, staticVars, valVars, now, files, tmp, mainVars, di, existing_dates,
                 keep_df, changed, saved_static, consec_429, stats, attempt,
                 fetched, last, raised, save_calls, errs, saveVars>>

\* Lines 541-555.
DateSkip ==
  /\ AtDateTop /\ ~deadline_check
  /\ dates[di] \in existing_dates
  /\ stats' = [stats EXCEPT !.skipped = @ + 1]
  /\ logs' = Append(logs, "SKIP")
  /\ last' = [d |-> dates[di], out |-> "skip"]
  /\ di' = di + 1
  /\ UNCHANGED <<configVars, audit, merged_file, staticVars, valVars, now, files, tmp, mainVars, tpc, existing_dates,
                 keep_df, changed, saved_static, consec_429, attempt, stop,
                 fetched, raised, save_calls, errs, saveVars>>

\* _fetch_build_validate_once is entered for dates[di]: for the first time
\* from the top of the loop, again from inside _retry.
CanAttempt ==
  /\ InTicker
  /\ \/ AtDateTop /\ ~deadline_check /\ dates[di] \notin existing_dates
     \/ tpc = "retry"

\* Lines 558-577, and line 603 when save_static_row raises.
AttemptSuccess(v, sk) ==
  /\ CanAttempt
  /\ fetched' = fetched \cup {dates[di]}
  /\ consec_429' = 0
  /\ LET dyn == stamped_row(ti, dates[di], v, keep_df)
         status == dyn["validation_status"].s
         static_raises == ~saved_static /\ sk = "bad"
     IN /\ \E r \in save_or_append(files[ti], [cols |-> DOMAIN dyn, rows |-> <<dyn>>],
                                    mode # "overwrite") :
             /\ files' = [files EXCEPT ![ti] = r.out]
             /\ changed' = (changed \/ r.changed)
        /\ IF static_raises
             THEN /\ stats' = [stats EXCEPT !.failed = @ + 1]
                  /\ logs' = Append(logs, "FAIL")
                  /\ last' = [d |-> dates[di], out |-> "static_error"]
                  /\ errs' = errs \cup {"other"}
                  /\ UNCHANGED <<saved_static, staticVars>>
             ELSE /\ saved_static' = (saved_static \/ sk = "row")
                  /\ IF ~saved_static /\ sk = "row"
                       THEN /\ static_file' \in save_static_row(static_file, StaticDF(ti))
                            /\ static_written' = static_written \cup {StaticDF(ti)}
                       ELSE UNCHANGED staticVars
                  /\ stats' = IF status = "ok" THEN [stats EXCEPT !.ok = @ + 1]
                              ELSE IF status = "flagged"
                                THEN [stats EXCEPT !.flagged = @ + 1]
                                ELSE [stats EXCEPT !.failed = @ + 1]
                  /\ logs' = Append(logs, "OK")
                  /\ last' = [d |-> dates[di], out |-> status]
                  /\ UNCHANGED errs
  /\ di' = di + 1 /\ attempt' = 0 /\ tpc' = "date_top"
  /\ raised' = "none" /\ save_calls' = save_calls + 1
  /\ UNCHANGED <<configVars, audit, merged_file, valVars, now, tmp, mainVars,
                 existing_dates, keep_df, stop, saveVars>>

\* Lines 476-478 and 579-595: _retry hands a rate-limit error on at once;
\* any other exception it would retry while tries are left.
AttemptRateLimit ==
  /\ CanAttempt
  /\ fetched' = fetched \cup {dates[di]}
  /\ IF retry_reraises("429") \/ attempt >= max_tries - 1
       THEN /\ consec_429' = consec_429 + 1
            /\ last' = [d |-> dates[di], out |-> "429"]
            /\ errs' = errs \cup {"429"}
            /\ attempt' = 0 /\ raised' = "none"
            /\ IF breaker_trips(consec_429 + 1)
                 THEN /\ logs' = logs \o <<"FAIL", "INFO">>
                      /\ stop' = "breaker" /\ tpc' = "ret"
                      /\ UNCHANGED di
                 ELSE /\ logs' = Append(logs, "FAIL")
                      /\ di' = di + 1 /\ tpc' = "date_top"
                      /\ UNCHANGED stop
       ELSE /\ attempt' = attempt + 1 /\ tpc' = "retry" /\ raised' = "429"
            /\ UNCHANGED <<consec_429, last, errs, logs, stop, di>>
  /\ UNCHANGED <<configVars, audit, merged_file, staticVars, valVars, now, files, tmp, mainVars, existing_dates,
                 keep_df, changed, saved_static, stats, save_calls, saveVars>>

\* Lines 479-483 and 597-605.
AttemptException(k) ==
  /\ CanAttempt
  /\ fetched' = fetched \cup {dates[di]}
  /\ IF attempt < max_tries - 1
       THEN /\ attempt' = attempt + 1 /\ tpc' = "retry" /\ raised' = k
            /\ UNCHANGED <<di, stats, logs, stop, last, errs>>
       ELSE /\ attempt' = 0 /\ raised' = "none"
            /\ stats' = [stats EXCEPT !.failed = @ + 1]
            /\ logs' = Append(logs, "FAIL")
            /\ last' = [d |-> dates[di], out |-> k]
            /\ errs' = errs \cup {"other"}
            /\ IF is_hard_error(k)
                 THEN stop' = "hard" /\ tpc' = "ret" /\ UNCHANGED di
                 ELSE di' = di + 1 /\ tpc' = "date_top" /\ UNCHANGED stop
  /\ UNCHANGED <<configVars, audit, merged_file, staticVars, valVars, now, files, tmp, mainVars, existing_dates,
                 keep_df, changed, saved_static, consec_429, save_calls, saveVars>>

Returning == InTicker /\ (tpc = "ret" \/ (tpc = "date_top" /\ di > NumDates))

\* Lines 592, 619 and 642-644.
TickerReturn ==
  /\ Returning
  /\ any_changed' = (any_changed \/ changed)
  /\ all_logs' = all_logs \cup Tags(logs)
  /\ lastStop' = stop
  /\ mpc' = "post"
  /\ tpc' = "idle" /\ di' = 0 /\ existing_dates' = {} /\ keep_df' = EmptyDF
  /\ changed' = FALSE /\ saved_static' = FALSE /\ consec_429' = 0
  /\ stats' = ZeroStats /\ logs' = <<>> /\ attempt' = 0 /\ stop' = "none"
  /\ fetched' = {} /\ last' = NoLast /\ raised' = "none" /\ save_calls' = 0
  /\ UNCHANGED <<configVars, audit, merged_file, staticVars, valVars, now, files, tmp, ti, hard_fail, errs, saveVars>>

\* ------------------------------------------------------------------- main
\* Lines 638-640.
MainDeadlineBefore ==
  /\ mpc = "loop" /\ ti <= NumTickers /\ deadline_check
  /\ all_logs' = all_logs \cup {"INFO"}
  /\ mpc' = "exit"
  /\ UNCHANGED <<configVars, audit, merged_file, staticVars, valVars, now, files, tmp, ti, any_changed, hard_fail,
                 lastStop, tickerVars, errs, saveVars>>

\* Lines 647-649, else the next ticker.
MainAfterTicker ==
  /\ mpc = "post"
  /\ IF deadline_check
       THEN all_logs' = all_logs \cup {"INFO"} /\ mpc' = "exit" /\ UNCHANGED ti
       ELSE mpc' = "loop" /\ ti' = ti + 1 /\ UNCHANGED all_logs
  /\ UNCHANGED <<configVars, audit, merged_file, staticVars, valVars, now, files, tmp, any_changed, hard_fail,
                 lastStop, tickerVars, errs, saveVars>>

\* Line 652.
MainExit ==
  /\ mpc = "exit" \/ (mpc = "loop" /\ ti > NumTickers)
  /\ hard_fail' = ("FAIL" \in all_logs)
  /\ mpc' = "done"
  /\ UNCHANGED <<configVars, audit, merged_file, staticVars, valVars, now, files, tmp, ti, all_logs, any_changed,
                 lastStop, tickerVars, errs, saveVars>>

Next ==
  \/ TimePasses
  \/ TickerStart
  \/ DateDeadline
  \/ DateSkip
  \/ \E v \in AssemblerValues, sk \in StaticKinds : AttemptSuccess(v, sk)
  \/ AttemptRateLimit
  \/ \E k \in Exceptions : AttemptException(k)
  \/ TickerReturn
  \/ MainDeadlineBefore
  \/ MainAfterTicker
  \/ MainExit

Spec == Init /\ [][Next]_vars

\* ---------------------------------------------------------------- SpecSave
\* save_or_append called any number of times for one ticker, the process
\* possibly dying inside a call and being started again.
SaveTicker == 1

BatchRowOpts == {[v |-> Num(14), st |-> "ok"], [v |-> Num(126), st |-> "ok"]}

\* A batch carries one feature column; which one depends on what the
\* assembler returned, so two batches need not have the same columns.
BatchFeatures == {"dividend_yield", "pe_ratio"}

\* The batches tried: dividend_yield with either value, with and without
\* the validation columns; pe_ratio with one value, without them and for
\* the first date.
BatchValues(feat) ==
  IF feat = "dividend_yield" THEN BatchRowOpts ELSE {[v |-> Num(21), st |-> "ok"]}

BatchHasVal(feat) == IF feat = "dividend_yield" THEN BOOLEAN ELSE {FALSE}

BatchRow(d, o, hasVal, feat) ==
  [c \in {"ticker", "as_of", feat}
          \cup (IF hasVal THEN ValidationCols ELSE {}) |->
     IF c = "ticker" THEN Str(TickerNames[SaveTicker])
     ELSE IF c = "as_of" THEN Dt(d)
     ELSE IF c = feat THEN o.v
     ELSE IF c = "validation_status" THEN Str(o.st)
     ELSE Str("")]

\* The rows of a batch, latest as_of first: a caller owes no order.
RECURSIVE BatchRows(_, _, _, _)
BatchRows(ds, f, hasVal, feat) ==
  IF ds = {} THEN <<>>
  ELSE LET d == CHOOSE x \in ds : \A y \in ds : y <= x
       IN <<BatchRow(d, f[d], hasVal, feat)>>
          \o BatchRows(ds \ {d}, f, hasVal, feat)

BatchesOf(ds, feat) ==
  {[cols |-> {"ticker", "as_of", feat}
               \cup (IF hasVal THEN ValidationCols ELSE {}),
    rows |-> BatchRows(ds, f, hasVal, feat)] :
     f \in [ds -> BatchValues(feat)], hasVal \in BatchHasVal(feat)}

BatchDates(feat) ==
  IF feat = "dividend_yield"
    THEN {x \in SUBSET Dates : x # {} /\ Cardinality(x) <= MaxBatch}
    ELSE {{dates[1]}}

Batches ==
  UNION {UNION {BatchesOf(ds, feat) : ds \in BatchDates(feat)} :
           feat \in BatchFeatures}

WriteInPlace == "path"

\* Line 292 and line 390: the file a write goes to before os.replace.
write_target == "tmp"

InitSave ==
  /\ mode = "append" /\ max_global_minutes = 0 /\ now = 0
  /\ files = [t \in Tickers |-> NoFile]
  /\ tmp = [t \in Tickers |-> NoFile]
  /\ mpc = "done" /\ ti = 1 /\ all_logs = {} /\ any_changed = FALSE
  /\ hard_fail = FALSE /\ lastStop = "none"
  /\ TickerIdle
  /\ errs = {}
  /\ initFiles = files
  /\ SaveIdle
  /\ audit = {} /\ merged_file = NoFile
  /\ static_file = NoFile /\ static_written = {}
  /\ ValIdle

runVars == <<configVars, audit, merged_file, staticVars, valVars, now, mainVars, tickerVars, errs>>

\* Lines 300-373 and the opening of the temp file (line 293 or 391), which
\* truncates whatever an earlier call left there.
SaveBegin(df, merge) ==
  /\ spc = "idle"
  /\ \E r \in save_or_append(files[SaveTicker], df, merge) :
       pending' = [prev |-> files[SaveTicker],
                   batch |-> df, merge |-> merge, out |-> r.out,
                   changed |-> r.changed,
                   staleTmp |-> tmp[SaveTicker] # NoFile]
  /\ IF write_target = "tmp"
       THEN tmp' = [tmp EXCEPT ![SaveTicker] = Partial] /\ UNCHANGED files
       ELSE files' = [files EXCEPT ![SaveTicker] = Partial] /\ UNCHANGED tmp
  /\ spc' = "write"
  /\ UNCHANGED runVars

\* write_parquet returns: the temp file is complete.
SaveWritten ==
  /\ spc = "write"
  /\ IF write_target = "tmp"
       THEN tmp' = [tmp EXCEPT ![SaveTicker] = pending.out] /\ UNCHANGED files
       ELSE files' = [files EXCEPT ![SaveTicker] = pending.out] /\ UNCHANGED tmp
  /\ spc' = "replace"
  /\ UNCHANGED <<runVars, pending>>

\* os.replace(tmp, path), lines 294 and 397, and the return.
SaveReplace ==
  /\ spc = "replace"
  /\ IF write_target = "tmp"
       THEN /\ files' = [files EXCEPT ![SaveTicker] = tmp[SaveTicker]]
            /\ tmp' = [tmp EXCEPT ![SaveTicker] = NoFile]
       ELSE UNCHANGED <<files, tmp>>
  /\ spc' = "idle"
  /\ pending' = [recovered |-> pending.staleTmp]
  /\ UNCHANGED runVars

\* The process dies inside the call and is started again; the files stay
\* as they are.  The content of the temp file is read by os.replace only,
\* right after write_parquet rewrote it: of a temp file left behind the
\* model keeps whether it is partial or complete (Stale).
SaveCrash ==
  /\ spc \in {"write", "replace"}
  /\ spc' = "idle"
  /\ pending' = NoCall
  /\ tmp' = [tmp EXCEPT ![SaveTicker] = IF IsTable(@) THEN Stale ELSE @]
  /\ UNCHANGED <<runVars, files>>

NextSave ==
  \/ \E df \in Batches, merge \in BOOLEAN : SaveBegin(df, merge)
  \/ SaveWritten
  \/ SaveReplace
  \/ SaveCrash

SpecSave == InitSave /\ [][NextSave]_vars

\* -------------------------------------------------------------- SpecStatic
\* save_static_row called any number of times, with frames of either
\* ticker whose columns differ, starting without a static file.
InitStatic == InitSave

\* Lines 236-287.
StaticSave(static_df) ==
  /\ static_file' \in save_static_row(static_file, static_df)
  /\ static_written' = static_written \cup {static_df}
  /\ UNCHANGED <<configVars, audit, merged_file, valVars, now, files, tmp,
                 mainVars, tickerVars, errs, saveVars>>

NextStatic == \E static_df \in StaticFrames : StaticSave(static_df)

SpecStatic == InitStatic /\ [][NextStatic]_vars

\* ------------------------------------------------------------ SpecValidate
\* validate_dynamic_row applied to one row and a trend context.  The row
\* holds dividend_yield and the columns of one more rule: a ratio with its
\* denominator, the two interest covers, or 6m_return.
DividendYields ==
  {NULL, NaN, Inf(1), Num(0 - 1), Num(0), Num(50), Num(100), Num(101),
   Num(200), Num(249), Num(250)}

Denominators ==
  {NULL, NaN, Num(200), Num(999), Num(1000), Num(0 - 1000), Num(1001), Num(5000)}

RatioRows(ratio, denominator, values) ==
  {[c \in {ratio, denominator} |-> IF c = ratio THEN v ELSE d] :
     v \in values, d \in Denominators}
    \cup {[c \in {ratio} |-> v] : v \in values}

CoverRows ==
  {[c \in {"ebit_interest_cover", "ebit_interest_cover_capped", "interest_expense"} |->
      IF c = "interest_expense" THEN d
      ELSE IF c = "ebit_interest_cover" THEN Num(5000) ELSE k] :
     d \in Denominators, k \in {Num(4000), Num(6000)}}
    \cup {[c \in {"ebit_interest_cover", "interest_expense"} |->
             IF c = "interest_expense" THEN Num(200) ELSE Num(5000)]}

ExtraColumns ==
  {<<>>}
    \cup RatioRows("pfcf_ratio", "free_cash_flow", {NULL, Num(50000), Num(1000000)})
    \cup RatioRows("net_debt_to_ebitda", "ebitda", {Num(5000), Num(30000)})
    \cup CoverRows
    \cup {[c \in {"6m_return"} |-> v] :
            v \in {NaN, Inf(0 - 1), Num(0 - 1000), Num(0 - 999), Num(9999), Num(10000)}}

\* dynamic_df: the columns of both parts; the parts share no column.
DynamicRows ==
  {[c \in {"dividend_yield"} \cup DOMAIN x |->
      IF c = "dividend_yield" THEN y ELSE x[c]] :
     y \in DividendYields, x \in ExtraColumns}
    \cup {x \in ExtraColumns : DOMAIN x # {}}

PrevRowOf(p) ==
  [c \in {"as_of", "dividend_yield", "pfcf_ratio"} |->
     IF c = "as_of" THEN Dt(START_YEAR)
     ELSE IF c = "dividend_yield" THEN p ELSE Num(2000)]

\* prev_df: None, or one or two rows; the last row is the one compared.
PrevFrames ==
  {EmptyDF}
    \cup {[cols |-> {"as_of", "dividend_yield", "pfcf_ratio"},
           rows |-> <<PrevRowOf(p)>>] : p \in {NULL, NaN, Inf(1), Num(0), Num(10), Num(0 - 10)}}
    \cup {[cols |-> {"as_of", "dividend_yield", "pfcf_ratio"},
           rows |-> <<PrevRowOf(Num(1)), PrevRowOf(Num(10))>>],
          [cols |-> {"as_of"}, rows |-> <<[c \in {"as_of"} |-> Dt(START_YEAR)]>>]}

InitValidate ==
  /\ mode = "append" /\ max_global_minutes = 0 /\ now = 0
  /\ files = [t \in Tickers |-> NoFile]
  /\ tmp = [t \in Tickers |-> NoFile]
  /\ mpc = "done" /\ ti = 1 /\ all_logs = {} /\ any_changed = FALSE
  /\ hard_fail = FALSE /\ lastStop = "none"
  /\ TickerIdle
  /\ errs = {}
  /\ initFiles = files
  /\ SaveIdle
  /\ audit = {} /\ merged_file = NoFile
  /\ static_file = NoFile /\ static_written = {}
  /\ vpc = "in" /\ vrow \in DynamicRows /\ vprev \in PrevFrames /\ vres = NoRow

\* Lines 136-147.
Validate ==
  /\ vpc = "in"
  /\ vres' = validate_dynamic_row(vrow, vprev)
  /\ vpc' = "out"
  /\ UNCHANGED <<configVars, audit, merged_file, staticVars, now, files, tmp, mainVars, tickerVars, errs,
                 saveVars, vrow, vprev>>

NextValidate == Validate

SpecValidate == InitValidate /\ [][NextValidate]_vars

\* ================================================================ claims
Complete(f) == f = NoFile \/ IsTable(f)

RowsOf(df) == {df.rows[i] : i \in 1..Len(df.rows)}

\* C1: in append mode no as_of that was in a ticker's table when the run
\* started is handed to the assembler, and its row is in the table, cell for
\* cell as it was, in every state of the run, whatever the outcomes are.
C1_ExistingRowsKept ==
  mode = "append" =>
    /\ \A t \in Tickers :
         IsTable(initFiles[t]) =>
           IsTable(files[t]) /\ RowsOf(initFiles[t]) \subseteq RowsOf(files[t])
    /\ InTicker /\ IsTable(initFiles[ti]) => fetched \cap AsOfSet(initFiles[ti]) = {}

C1_Witness ==
  /\ mode = "append" /\ mpc = "done"
  /\ IsTable(initFiles[1]) /\ Height(initFiles[1]) = 1
  /\ Height(files[1]) = NumDates
  /\ errs = {"429", "other"}

\* C2: the per-ticker table, at its path and in the temp file about to
\* replace it, has at most one row per as_of and ascending as_of, after any
\* sequence of save_or_append calls with batches of distinct as_of.
C2_SortedUnique ==
  \A f \in {files[SaveTicker], tmp[SaveTicker]} : IsTable(f) => IsSortedUnique(f)

C2_Witness ==
  /\ spc = "replace" /\ pending.merge /\ IsTable(files[SaveTicker])
  /\ Height(pending.batch) = 2
  /\ AsOfSet(pending.batch) \cap AsOfSet(files[SaveTicker]) # {}
  /\ AsOfSet(pending.batch) \ AsOfSet(files[SaveTicker]) # {}
  /\ tmp[SaveTicker] = pending.out /\ Height(pending.out) = 3

\* C3: in append mode, at every point of the date loop, skipped counts the
\* dates already passed that were in the table at run start, none of them
\* was handed to the assembler, an as_of that ended ok or flagged is in the
\* table with that status; when the loop ends with every date skipped or
\* successful the table holds exactly the old and the new dates, sorted, and
\* when every date was skipped changed is false and the file is untouched.
DatesBefore(k) == {dates[j] : j \in 1..(k - 1)}

OldDates(t) == IF IsTable(initFiles[t]) THEN AsOfSet(initFiles[t]) ELSE {}

C3_AppendSkipsExisting ==
  (mode = "append" /\ InTicker) =>
    /\ stats.skipped = Cardinality(DatesBefore(di) \cap OldDates(ti))
    /\ fetched \cap OldDates(ti) = {}
    /\ last.out \in {"ok", "flagged"} =>
         /\ IsTable(files[ti]) /\ last.d \in AsOfSet(files[ti])
         /\ RowAt(files[ti], last.d)["validation_status"] = Str(last.out)
    /\ (Returning /\ stats.ok + stats.flagged + stats.skipped = NumDates) =>
         /\ AsOfSet(files[ti]) = OldDates(ti) \cup Dates
         /\ Height(files[ti]) = NumDates
         /\ IsSortedUnique(files[ti])
    /\ (Returning /\ stats.skipped = NumDates) =>
         ~changed /\ files[ti] = initFiles[ti]

C3_Witness ==
  /\ mode = "append" /\ Returning /\ ti = 1
  /\ stats.skipped = 1 /\ stats.ok = 1 /\ stats.flagged = 1
  /\ Height(files[1]) = 3 /\ changed

\* C4: after a merge, for every as_of of the batch, the table holds the row
\* of the batch (rounded), also when that as_of was in the table before.
C4_NewRowsWin ==
  (spc = "replace" /\ pending.merge /\ IsTable(pending.prev)) =>
    \A i \in 1..Height(pending.batch) :
      LET r == pending.batch.rows[i]
      IN \A c \in pending.batch.cols :
           RowAt(pending.out, AsOfOf(r))[c] = RoundCell(r[c])

\* C5: the flag a merging save_or_append returns is true exactly when the
\* table it writes differs from the table that was at the path.
C5_ChangedIffDiffers ==
  (spc = "replace" /\ pending.merge) =>
    (pending.changed <=> (pending.out # pending.prev))

\* C6: the per-ticker path never holds a partially written file: during a
\* call it holds the table found at the start of the call, the rename
\* installs the complete new table, and a call that finds the temp file of
\* a dead call goes the same way.
C6_AtomicWrite ==
  /\ Complete(files[SaveTicker])
  /\ spc \in {"write", "replace"} => files[SaveTicker] = pending.prev
  /\ spc = "replace" => tmp[SaveTicker] = pending.out /\ IsTable(pending.out)
  /\ (spc = "idle" /\ pending.recovered) =>
       IsTable(files[SaveTicker]) /\ tmp[SaveTicker] = NoFile

C6_Witness ==
  /\ spc = "idle" /\ pending.recovered
  /\ IsTable(files[SaveTicker]) /\ Height(files[SaveTicker]) = 3
  /\ tmp[SaveTicker] = NoFile

\* C7: a rate-limit error adds one to consec_429 and a successful as_of
\* sets it to zero; the ticker is left exactly when the counter reaches
\* MAX_CONSEC_429, nothing more is fetched for it, and main goes to the
\* next ticker unless the global deadline has passed.
C7_Breaker ==
  [][
    /\ (InTicker /\ last' # last /\ last'.out = "429") =>
         /\ consec_429' = consec_429 + 1
         /\ (consec_429' >= MAX_CONSEC_429) <=> (tpc' = "ret" /\ stop' = "breaker")
    /\ (InTicker /\ last' # last /\ last'.out \in {"ok", "flagged"}) =>
         consec_429' = 0
    /\ (InTicker /\ stop = "breaker") =>
         /\ files' = files
         /\ mpc' = "in_ticker" => fetched' = fetched
         /\ mpc' # "in_ticker" => (mpc' = "post" /\ lastStop' = "breaker")
    /\ (mpc = "post" /\ lastStop = "breaker" /\ mpc' # mpc /\ ~deadline_check) =>
         (mpc' = "loop" /\ ti' = ti + 1)
  ]_vars

C7_Witness ==
  /\ lastStop = "breaker" /\ ti = 2 /\ InTicker /\ fetched # {}
  /\ consec_429 = 0 /\ last.out \in {"ok", "flagged"}

\* C8: a run whose only exceptions are rate-limit errors and that ends in a
\* breaker abort returns 0, strict mode or not.
C8_BreakerNotHardFailure ==
  (mpc = "done" /\ errs = {"429"} /\ lastStop = "breaker") =>
    \A STRICT \in BOOLEAN : main_exit(STRICT, hard_fail) = 0

\* C9: after a rate-limit error below the threshold the date loop is still
\* at the as_of that was rate-limited, to fetch it again.
C9_RateLimitRetried ==
  (InTicker /\ last.out = "429" /\ stop = "none") =>
    (di <= NumDates /\ dates[di] = last.d)

\* C10: an as_of that ends in an auth or plan error ends the date loop of
\* the ticker; from then on nothing is fetched or written for the ticker,
\* its table stays as it was, and main goes to the next ticker unless the
\* global deadline has passed.
C10_HardErrorAbortsTicker ==
  [][
    /\ (InTicker /\ last' # last /\ last'.out \in HardErrors) =>
         (tpc' = "ret" /\ stop' = "hard" /\ files' = files)
    /\ (InTicker /\ stop = "hard") =>
         /\ files' = files
         /\ mpc' = "in_ticker" => fetched' = fetched
         /\ mpc' # "in_ticker" => (mpc' = "post" /\ lastStop' = "hard")
    /\ (mpc = "post" /\ lastStop = "hard" /\ mpc' # mpc /\ ~deadline_check) =>
         (mpc' = "loop" /\ ti' = ti + 1)
  ]_vars

C10_Witness ==
  /\ lastStop = "hard" /\ ti = 2 /\ InTicker /\ fetched # {}
  /\ IsTable(files[1]) /\ Height(files[1]) = 2 /\ mode = "append"

\* C11: an auth or plan error raised by the fetch-build-validate step is
\* not retried: no further attempt for the as_of is pending after it.
C11_HardErrorNotRetried ==
  (InTicker /\ raised \in HardErrors) => tpc # "retry"

C12_Tries == IF MAX_RETRIES >= 1 THEN MAX_RETRIES ELSE 1

\* C12: for an exception that is neither a rate-limit nor an auth/plan
\* error the step is tried at most max(1, MAX_RETRIES) times per as_of and a
\* success ends the attempts; when the last attempt fails, failed grows by
\* one and nothing else is counted, no file changes, the as_of is not in
\* the table, and the date loop goes on with the next as_of of the ticker.
C12_SoftFailure ==
  [][
    /\ attempt' <= C12_Tries - 1
    /\ (InTicker /\ last' # last /\ last'.out \in {"ok", "flagged"}) =>
         (attempt' = 0 /\ tpc' = "date_top")
    /\ (InTicker /\ last' # last /\ last'.out = "error") =>
         /\ attempt = C12_Tries - 1
         /\ stats' = [stats EXCEPT !.failed = @ + 1]
         /\ files' = files /\ tmp' = tmp
         /\ IsTable(files'[ti]) => last'.d \notin AsOfSet(files'[ti])
         /\ mpc' = mpc /\ ti' = ti /\ stop' = "none"
         /\ tpc' = "date_top" /\ di' = di + 1 /\ last'.d = dates[di]
  ]_vars

C12_Witness ==
  /\ InTicker /\ ti = 1 /\ files[1] = NoFile
  /\ last = [d |-> dates[1], out |-> "error"]
  /\ tpc = "date_top" /\ di = 2 /\ stats.failed = 1 /\ logs = <<"FAIL">>

\* A step in which _fetch_build_validate_once runs for the current as_of.
AssemblerInvoked ==
  /\ InTicker /\ mpc' = "in_ticker"
  /\ attempt' = attempt + 1 \/ (last' # last /\ last'.out # "skip")

C14_ViolationTexts ==
  {"dividend_yield out-of-bounds",
   "dividend_yield out-of-bounds;dividend_yield abnormal change"}

C15_OneSavePerTicker ==
  InTicker => (save_calls <= 1 /\ (save_calls = 1 => Returning))

C16_JumpTexts ==
  {"dividend_yield abnormal change",
   "dividend_yield out-of-bounds;dividend_yield abnormal change"}

\* C16: a saved row carries the abnormal-change violation exactly when its
\* dividend_yield exceeds RelJumpLimit times that of the most recent as_of
\* before it in the ticker's table, rows saved earlier in the run included.
C16_TrendContext ==
  (InTicker /\ mode # "overwrite" /\ last.out \in {"ok", "flagged"}
     /\ IsTable(files[ti])) =>
    LET tbl == files[ti]
        r == RowAt(tbl, last.d)
        before == {d \in AsOfSet(tbl) : d < last.d}
        prior == RowAt(tbl, CHOOSE d \in before : \A e \in before : e <= d)
        expected == /\ before # {}
                    /\ IsNum(prior["dividend_yield"])
                    /\ prior["dividend_yield"].n # 0
                    /\ Abs(r["dividend_yield"].n)
                         > RelJumpLimit * Abs(prior["dividend_yield"].n)
    IN (r["violations"].s \in C16_JumpTexts) <=> expected

\* C17: when the date loop of a ticker has ended, the audit directory holds
\* a file for an as_of fetched in this run exactly when its row was saved
\* with status flagged.
C17_AuditForFlagged ==
  (InTicker /\ Returning /\ IsTable(files[ti])) =>
    \A d \in fetched \cap AsOfSet(files[ti]) :
      (RowAt(files[ti], d)["validation_status"] = Str("flagged"))
        <=> (<<TickerNames[ti], d>> \in audit)

SeqHas(seq, x) == \E i \in 1..Len(seq) : seq[i] = x

\* The denominator d is a number of magnitude below eps.
BelowEpsilon(d, eps) == IsNum(d) /\ Abs(d.n) < eps

\* The returned row has `ratios` set to null and `code` is among the
\* violations if nullify holds; the ratios are as given and the code is
\* absent if not.
NullifiedIff(nullify, ratios, code) ==
  IF nullify
    THEN (\A c \in ratios : vres.out[c] = NULL) /\ SeqHas(vres.violations, code)
    ELSE (\A c \in ratios : vres.out[c] = vrow[c]) /\ ~SeqHas(vres.violations, code)

\* C18: a ratio is set to null, with its *_nullified_tiny_* code, exactly
\* when the magnitude of its denominator is below the epsilon 1.0; otherwise
\* it is returned as given and the code is not emitted.
C18_NullifyBelowEpsilon ==
  vpc = "out" =>
    /\ {"free_cash_flow", "pfcf_ratio"} \subseteq DOMAIN vrow =>
         NullifiedIff(BelowEpsilon(vrow["free_cash_flow"], TINY_FCF),
                      {"pfcf_ratio"}, "pfcf_ratio_nullified_tiny_fcf")
    /\ {"ebitda", "net_debt_to_ebitda"} \subseteq DOMAIN vrow =>
         NullifiedIff(BelowEpsilon(vrow["ebitda"], TINY_EBITDA),
                      {"net_debt_to_ebitda"}, "nde_nullified_tiny_ebitda")
    /\ {"ebit_interest_cover", "ebit_interest_cover_capped", "interest_expense"}
         \subseteq DOMAIN vrow =>
         NullifiedIff(BelowEpsilon(vrow["interest_expense"], TINY_INTEREST_EXP),
                      {"ebit_interest_cover", "ebit_interest_cover_capped"},
                      "eic_nullified_tiny_interest_expense")

\* C19: an out-of-bounds violation names a feature exactly when the value
\* validated for it is a finite number outside its range, hi exclusive, lo
\* inclusive for the lower-inclusive features and exclusive for the others;
\* a missing, null or non-finite value gives none.
C19_OutOfBoundsIffOutside ==
  vpc = "out" =>
    \A col \in DOMAIN FEATURE_RANGES :
      LET v == Cell(vres.out, col)
          lo == FEATURE_RANGES[col][1]
          hi == FEATURE_RANGES[col][2]
          inside == /\ IF col \in LOWER_INCLUSIVE THEN v.n >= lo ELSE v.n > lo
                    /\ v.n < hi
      IN SeqHas(vres.violations, col \o " out-of-bounds") <=> (IsNum(v) /\ ~inside)

\* C20: for a feature with a relative-jump limit, validated value cur and
\* value prior in the last row of the trend context, both non-null: when
\* the magnitude of prior exceeds the floor the abnormal-change violation
\* is emitted exactly when |cur / prior| > limit; when it is below the
\* floor, or a value or the context is missing, it is not emitted.
C20_JumpIffRatioExceeds ==
  vpc = "out" =>
    \A col \in DOMAIN REL_JUMP_LIMIT :
      LET has == SeqHas(vres.violations, col \o " abnormal change")
          given == /\ vprev # EmptyDF /\ col \in vprev.cols
                   /\ col \in DOMAIN vres.out
          cur == vres.out[col]
          prior == vprev.rows[Len(vprev.rows)][col]
          limit == REL_JUMP_LIMIT[col]
      IN IF ~given \/ IsNull(cur) \/ IsNull(prior) THEN ~has
         ELSE /\ (IsNum(prior) /\ Abs(prior.n) > 0 /\ IsNum(cur)) =>
                   (has <=> Abs(cur.n) > limit * Abs(prior.n))
              /\ (IsNum(prior) /\ Abs(prior.n) > 0 /\ IsInf(cur)) => has
              /\ (IsNum(prior) /\ Abs(prior.n) > 0 /\ IsNaN(cur)) => ~has
              /\ (IsNum(prior) /\ Abs(prior.n) = 0) => ~has

C20_Witness ==
  /\ vpc = "out" /\ vrow["dividend_yield"] = Num(200)
  /\ Len(vprev.rows) = 2 /\ vprev.rows[2]["dividend_yield"] = Num(10)
  /\ vres.status = "flagged"
  /\ vres.violations = <<"dividend_yield abnormal change">>

\* A save_or_append call that merges a batch into a table found on disk,
\* after its result was computed.
Merging ==
  /\ spc \in {"write", "replace"}
  /\ pending.merge
  /\ IsTable(pending.prev)

\* Row r of the merged table is a row of `side` widened to cols: its own
\* feature cells, rounded, and a null in every feature column it lacks.
WidenedFrom(r, side, cols) ==
  \E i \in 1..Len(side.rows) :
    /\ \A c \in side.cols \ ValidationCols :
         r[c] = RoundCell(side.rows[i][c])
    /\ \A c \in (cols \ side.cols) \ ValidationCols : r[c] = NULL

\* C21: merging a table and a batch whose columns differ gives a table with
\* the columns of both; no row of either side is lost except to the
\* deduplication by as_of; a row that came from the table holds null in the
\* columns only the batch has, and a row that came from the batch holds
\* null in the columns only the table has.
C21_ColumnUnion ==
  Merging =>
    /\ pending.out.cols =
         pending.prev.cols \cup pending.batch.cols \cup ValidationCols
    /\ AsOfSet(pending.out) = AsOfSet(pending.prev) \cup AsOfSet(pending.batch)
    /\ Height(pending.out) =
         Cardinality(AsOfSet(pending.prev) \cup AsOfSet(pending.batch))
    /\ \A i \in 1..Height(pending.out) :
         \/ WidenedFrom(pending.out.rows[i], pending.prev, pending.out.cols)
         \/ WidenedFrom(pending.out.rows[i], pending.batch, pending.out.cols)

C21_Witness ==
  /\ Merging
  /\ "dividend_yield" \in pending.prev.cols \ pending.batch.cols
  /\ "pe_ratio" \in pending.batch.cols \ pending.prev.cols
  /\ \E i, j \in 1..Height(pending.out) :
       /\ pending.out.rows[i]["pe_ratio"] = NULL
       /\ IsNum(pending.out.rows[i]["dividend_yield"])
       /\ pending.out.rows[j]["dividend_yield"] = NULL
       /\ IsNum(pending.out.rows[j]["pe_ratio"])

\* C22: the table a merging save_or_append persists has validation_status
\* and violations, and each holds a string, never a null, in every row,
\* whether or not the table on disk or the batch had these columns.
C22_ValidationColsNeverNull ==
  Merging =>
    /\ ValidationCols \subseteq pending.out.cols
    /\ \A i \in 1..Height(pending.out) :
         \A c \in ValidationCols : IsStr(pending.out.rows[i][c])
    /\ (spc = "replace" => tmp[SaveTicker] = pending.out)

C22_Witness ==
  /\ Merging
  /\ spc = "replace"
  /\ ValidationCols \subseteq pending.prev.cols
  /\ ValidationCols \cap pending.batch.cols = {}
  /\ AsOfSet(pending.batch) \ AsOfSet(pending.prev) # {}

\* C23: in overwrite mode no date is skipped for being in the table found
\* on disk, and when generate_features_for_ticker returns after n dates
\* were computed and none failed, the table of the ticker holds n rows.
C23_OverwriteRebuilds ==
  (mode = "overwrite" /\ InTicker) =>
    /\ stats.skipped = 0
    /\ (Returning /\ stats.failed = 0 /\ stats.ok + stats.flagged > 0) =>
         /\ IsTable(files[ti])
         /\ Height(files[ti]) = stats.ok + stats.flagged

\* C24: in skip mode a ticker whose table exists when the run starts is
\* skipped as a whole: the assembler is entered for none of its dates and
\* its table stays as it was.
C24_SkipModeSkipsTicker ==
  (mode = "skip" /\ InTicker /\ IsTable(initFiles[ti])) =>
    /\ fetched = {}
    /\ files[ti] = initFiles[ti]

\* Some table holds a row persisted as flagged.
FlaggedRowPersisted ==
  \E t \in Tickers :
    /\ IsTable(files[t])
    /\ \E i \in 1..Height(files[t]) :
         files[t].rows[i]["validation_status"] = Str("flagged")

C26_StaticTable ==
  static_written # {} =>
    /\ IsTable(static_file)
    /\ \A i, j \in 1..Height(static_file) :
         TickerOf(static_file.rows[i]) = TickerOf(static_file.rows[j]) => i = j
    /\ TickerSet(static_file) = UNION {TickerSet(f) : f \in static_written}
    /\ static_file.cols = UNION {f.cols : f \in static_written}
    /\ \A i \in 1..Height(static_file) :
         \A c \in ohe_cols(static_file.cols) : IsNum(static_file.rows[i][c])

C26_Witness ==
  /\ IsTable(static_file)
  /\ Height(static_file) = NumTickers
  /\ Cardinality(static_written) > NumTickers
  /\ \E f \in static_written : \E c \in f.cols : IsNull(f.rows[1][c])
  /\ \E f \in static_written : ohe_cols(static_file.cols) \ f.cols # {}

\* C27: when main has ended and some per-ticker table changed in the run,
\* the combined table of all tickers has been written.
C27_MergeWhenChanged ==
  (mpc = "done" /\ any_changed) => IsTable(merged_file)

\* C28: the counters RunStats.update_from_lines derives from the log lines
\* of a ticker are the counters generate_features_for_ticker keeps: one
\* line per as_of visited, tagged with its outcome.
C28_LogsMatchStats ==
  (InTicker /\ tpc # "retry") => update_from_lines(logs) = stats

\* C29: _retry never makes a further attempt after a rate-limit error: the
\* error ends the attempts for the as_of at once, whichever attempt raised
\* it, and reaches the date loop, which counts it once and leaves the
\* as_of (for the next one, or to return).
C29_RateLimitNotRetried ==
  [][/\ (tpc' = "retry" => raised' # "429")
     /\ (consec_429' > consec_429 =>
           /\ consec_429' = consec_429 + 1
           /\ attempt' = 0 /\ tpc' \in {"date_top", "ret"}
           /\ last' = [d |-> dates[di], out |-> "429"]
           /\ (di' = di + 1 \/ tpc' = "ret"))]_vars

C29_Witness ==
  /\ InTicker /\ tpc = "date_top"
  /\ last.out = "429" /\ consec_429 = 1 /\ attempt = 0
  /\ di > 1 /\ last.d = dates[di - 1]

\* The as_of values in the table of the ticker that were not in it when
\* the run started.
PersistedThisRun ==
  (IF IsTable(files[ti]) THEN AsOfSet(files[ti]) ELSE {})
    \ (IF IsTable(initFiles[ti]) THEN AsOfSet(initFiles[ti]) ELSE {})

\* C30: when generate_features_for_ticker returns, ok + flagged is the
\* number of as_of values this run added to the table of the ticker.
C30_StatsMatchTable ==
  (InTicker /\ Returning) =>
    stats.ok + stats.flagged = Cardinality(PersistedThisRun)

====
